---- MODULE Spec2Model ----
(***************************************************************************)
(* Model of the Celesys AI service worker (src/sw.js).                     *)
(*                                                                         *)
(* The worker registers three listeners: install (pre-cache the shell),    *)
(* activate (delete the caches of other versions) and fetch (pass-through, *)
(* network-first for navigations, stale-while-revalidate for the rest).    *)
(* Every cache call and every network call is asynchronous: each is one    *)
(* step of the model, so handlers of different events interleave.          *)
(*                                                                         *)
(* A URL path is the sequence of its segments: "/" is << >>,               *)
(* "/icons/icon-192.png" is <<"icons", "icon-192.png">>.                   *)
(***************************************************************************)
EXTENDS Naturals, Sequences, FiniteSets

VARIABLES
    names,      \* names of the existing caches, in creation order (caches.keys())
    store,      \* store[name]: the entries (request key, response) of a cache
    serverGen,  \* generation of the content the origin server serves now
    phase,      \* lifecycle state of this worker
    install,    \* the install handler: position, waitUntil promise, flags
    activate,   \* the activate handler: position, waitUntil promise, flags
    h           \* h[e]: the fetch handler running in slot e

vars == <<names, store, serverGen, phase, install, activate, h>>

----------------------------------------------------------------------------
(* Bounds of the model *)

\* number of fetch events that can be in flight at the same time
NumSlots == 1
\* number of deployments of the origin's content (generations 1..MaxGen)
MaxGen == 2

----------------------------------------------------------------------------
(* Constants of the program *)

CACHE_NAME == "celesys-ai-v2"

Root == << >>

STATIC_ASSETS ==
    << Root, <<"manifest.json">>, <<"icons", "icon-192.png">>,
       <<"icons", "icon-512.png">> >>

Manifest == {STATIC_ASSETS[i] : i \in 1..Len(STATIC_ASSETS)}

----------------------------------------------------------------------------
(* The environment: requests, responses, caches *)

\* the cache a previous version of the worker may have left behind
LegacyName == "celesys-ai-v1"

CacheNames == {LegacyName, CACHE_NAME}

Dashboard == <<"dashboard">>
Icon192 == <<"icons", "icon-192.png">>
ApiReport == <<"api", "generate-report">>

\* the paths clients request: a page outside the manifest, an asset of the
\* manifest, an endpoint under the reserved prefix
Paths == {Dashboard, Icon192, ApiReport}

AllPaths == Manifest \cup Paths

Methods == {"GET", "POST", "PUT", "DELETE", "PATCH"}

Modes == {"navigate", "no-cors"}

Requests == [method : Methods, path : Paths, mode : Modes]

\* a cache entry is keyed by the request: its method and its URL.
\* The key of an intercepted request
RequestKey(req) == [method |-> req.method, path |-> req.path]

\* the key of a request made from a URL string, as in caches.match('/') and
\* cache.addAll([...]): a GET of that URL
UrlKey(path) == [method |-> "GET", path |-> path]

NoRequest == [method |-> "-", path |-> Root, mode |-> "-"]

\* a response fetched for url while the server was at generation gen
Response(url, gen) == [kind |-> "response", url |-> url, gen |-> gen]

\* no value: a cache miss, undefined
None == [kind |-> "none", url |-> Root, gen |-> 0]

\* a promise that has not settled yet
Pending == [kind |-> "pending", url |-> Root, gen |-> 0]

\* the event was not answered by the worker: the browser performs the
\* request itself, unmodified
Default == [kind |-> "default", url |-> Root, gen |-> 0]

\* a cache is a set of entries, each a request key with its response
Entry(key, response) == [key |-> key, response |-> response]

EmptyCache == {}

Slots == 1..NumSlots

IdleHandler ==
    [req |-> NoRequest, pc |-> "idle", result |-> Pending, response |-> None,
     cached |-> None, respondWith |-> 0, fetches |-> 0, reads |-> 0,
     puts |-> 0]

----------------------------------------------------------------------------
(* The host's cache storage *)

\* caches.open(name): the cache is created, last in creation order, if it
\* does not exist yet
CachesOpen(ns, name) ==
    IF \E i \in 1..Len(ns) : ns[i] = name THEN ns ELSE Append(ns, name)

\* cache.match(key) on one cache: the response of the entry with that key
CacheMatch(content, key) ==
    IF \E en \in content : en.key = key
    THEN (CHOOSE en \in content : en.key = key).response
    ELSE None

\* caches.match(key): the first hit over all existing caches, in creation
\* order; None (undefined) when no cache holds the key
CachesMatch(ns, st, key) ==
    LET hits == {i \in 1..Len(ns) : CacheMatch(st[ns[i]], key) # None}
    IN  IF hits = {} THEN None
        ELSE LET first == CHOOSE i \in hits : \A j \in hits : i <= j
             IN  CacheMatch(st[ns[first]], key)

\* a put that keeps an entry already stored under the key
CachePutIfAbsent(content, key, response) ==
    IF \E en \in content : en.key = key THEN content
    ELSE content \cup {[key |-> key, response |-> response]}

\* a put that adds its entry beside the one already stored under the key
CachePutAppend(content, key, response) ==
    content \cup {[key |-> key, response |-> response]}

\* cache.put(key, response): the entries with that key are replaced by the
\* new one
CachePut(content, key, response) ==
    {en \in content : en.key # key} \cup {Entry(key, response)}

\* cache.addAll(paths): all-or-nothing. ok is the set of paths whose fetch
\* succeeded; the entries are written only when every fetch succeeded
AddAllRejects(paths, ok) == ~ (paths \subseteq ok)

AddAll(content, paths, ok, gen) ==
    IF AddAllRejects(paths, ok) THEN content
    ELSE {en \in content : en.key \notin {UrlKey(p) : p \in paths}}
            \cup {Entry(UrlKey(p), Response(p, gen)) : p \in paths}

\* caches.delete(name)
CachesDelete(ns, name) == SelectSeq(ns, LAMBDA n : n # name)

----------------------------------------------------------------------------
(* Install *)

\* the chain without its catch: the rejection of addAll reaches waitUntil
InstallSettlesNoCatch(rejected) == IF rejected THEN "rejected" ELSE "fulfilled"

\* .catch(err => console.warn(...)): a rejected addAll is logged and the
\* promise handed to waitUntil fulfils
InstallSettles(rejected) == "fulfilled"

IdleInstall ==
    [pc |-> "idle", promise |-> "none", ok |-> {}, warned |-> FALSE,
     skipWaiting |-> FALSE]

\* the host fires install: waitUntil(caches.open(...)) and skipWaiting()
InstallEvent ==
    /\ phase = "parsed"
    /\ phase' = "installing"
    /\ install' = [install EXCEPT !.pc = "opening", !.promise = "pending",
                                  !.skipWaiting = TRUE]
    /\ UNCHANGED <<names, store, serverGen, activate, h>>

\* caches.open(CACHE_NAME) resolves; cache.addAll(STATIC_ASSETS) starts
InstallOpen ==
    /\ install.pc = "opening"
    /\ names' = CachesOpen(names, CACHE_NAME)
    /\ install' = [install EXCEPT !.pc = "adding"]
    /\ UNCHANGED <<store, serverGen, phase, activate, h>>

\* cache.addAll settles: ok are the manifest paths whose fetch succeeded
InstallAddAll ==
    /\ install.pc = "adding"
    /\ \E ok \in SUBSET Manifest :
        LET rejected == AddAllRejects(Manifest, ok)
        IN  /\ store' = [store EXCEPT ![CACHE_NAME] =
                            AddAll(store[CACHE_NAME], Manifest, ok, serverGen)]
            /\ install' = [install EXCEPT !.pc = "done", !.ok = ok,
                              !.warned = rejected,
                              !.promise = InstallSettles(rejected)]
    /\ phase' = "installed"
    /\ UNCHANGED <<names, serverGen, activate, h>>

----------------------------------------------------------------------------
(* Activate *)

\* the cleanup without its filter: every cache is deleted
StaleCachesNoFilter(keys) == keys

\* keys.filter(k => k !== CACHE_NAME)
StaleCaches(keys) == {k \in keys : k # CACHE_NAME}

\* the cleanup reported complete without waiting for its deletions
AllSettledAtOnce(pending) == TRUE

\* Promise.all(...): resolves when every caches.delete has resolved
AllSettled(pending) == pending = {}

IdleActivate ==
    [pc |-> "idle", promise |-> "none", keys |-> {}, pending |-> {},
     claimed |-> FALSE]

\* the host fires activate once install has succeeded (skipWaiting: without
\* waiting for the clients of the previous version): waitUntil(caches.keys()
\* ...) and clients.claim(). The outcomes of the addAll fetches are local
\* to the install handler and are gone by now.
ActivateEvent ==
    /\ phase = "installed"
    /\ install.promise = "fulfilled"
    /\ install.skipWaiting
    /\ phase' = "activating"
    /\ activate' = [activate EXCEPT !.pc = "keys", !.promise = "pending",
                                    !.claimed = TRUE]
    /\ install' = [install EXCEPT !.ok = {}]
    /\ UNCHANGED <<names, store, serverGen, h>>

\* caches.keys() resolves; one caches.delete per stale cache starts
ActivateKeys ==
    /\ activate.pc = "keys"
    /\ LET keys == {names[i] : i \in 1..Len(names)}
       IN  activate' = [activate EXCEPT !.pc = "deleting", !.keys = keys,
                                        !.pending = StaleCaches(keys)]
    /\ UNCHANGED <<names, store, serverGen, phase, install, h>>

\* one caches.delete(k) resolves
ActivateDelete ==
    /\ activate.pc = "deleting"
    /\ \E k \in activate.pending :
        /\ names' = CachesDelete(names, k)
        /\ store' = [store EXCEPT ![k] = EmptyCache]
        /\ activate' = [activate EXCEPT !.pending = @ \ {k}]
    /\ UNCHANGED <<serverGen, phase, install, h>>

\* Promise.all resolves: the host sees activate complete and starts
\* dispatching fetch events
ActivateDone ==
    /\ activate.pc = "deleting"
    /\ AllSettled(activate.pending)
    /\ activate' = [activate EXCEPT !.pc = "done", !.promise = "fulfilled"]
    /\ phase' = "activated"
    /\ UNCHANGED <<names, store, serverGen, install, h>>

----------------------------------------------------------------------------
(* Fetch: classification *)

\* the prefix test written as an equality: url.pathname === '/api'
StartsWithApiWholePath(path) == path = <<"api">>

\* url.pathname.startsWith('/api/'): first segment "api", and a slash after it
StartsWithApi(path) == Len(path) >= 2 /\ path[1] = "api"

\* the listener without its method check
StrategyNoMethodCheck(req) ==
    IF StartsWithApi(req.path) THEN "passThrough"
    ELSE IF req.mode = "navigate" THEN "networkFirst"
    ELSE "staleWhileRevalidate"

\* the listener without its check of the reserved prefix
StrategyNoApiCheck(req) ==
    IF req.method # "GET" THEN "passThrough"
    ELSE IF req.mode = "navigate" THEN "networkFirst"
    ELSE "staleWhileRevalidate"

\* the listener with the navigate condition checked before the other two
StrategyNavigateFirst(req) ==
    IF req.mode = "navigate" THEN "networkFirst"
    ELSE IF req.method # "GET" THEN "passThrough"
    ELSE IF StartsWithApi(req.path) THEN "passThrough"
    ELSE "staleWhileRevalidate"

\* the conditions of the fetch listener, in the order it checks them
Strategy(req) ==
    IF req.method # "GET" THEN "passThrough"
    ELSE IF StartsWithApi(req.path) THEN "passThrough"
    ELSE IF req.mode = "navigate" THEN "networkFirst"
    ELSE "staleWhileRevalidate"

\* response.clone(): the duplicate handed to cache.put
Clone(response) == response

\* the fallback without the root path: r alone
OrRootMissing(r, root) == r

\* r || caches.match('/'): the exact entry, else the entry of the root path
OrRoot(r, root) == IF r # None THEN r ELSE root

\* the cached entry alone, without the network outcome
CachedOnly(cached, fetched) == cached

\* cached || fetched: the cached entry when there is one, else the outcome
\* of the network fetch
CachedOr(cached, fetched) == IF cached # None THEN cached ELSE fetched

\* a catch that never settles instead of resolving with cached
CatchNeverSettles(cached) == [kind |-> "pending", url |-> << >>, gen |-> 0]

\* .catch(() => cached): a failed network fetch resolves fetched with cached
CatchCached(cached) == cached

\* the network fetch issued only when nothing is cached
RevalidatesOnMiss(cached) == cached = [kind |-> "none", url |-> << >>, gen |-> 0]

\* const fetched = fetch(event.request)...: issued whatever cached is
Revalidates(cached) == TRUE

\* the catch placed before the then: a failed fetch goes on to the cache write
AfterFetchFailThenPut == "opening"

\* .then(response => ...).catch(() => cached): after a failed fetch the then
\* is skipped and the chain is over
AfterFetchFail == "done"

Set(e, rec) == h' = [h EXCEPT ![e] = rec]

----------------------------------------------------------------------------
(* Fetch: the listener and the steps of its promise chains *)

\* the host dispatches a fetch event to the activated worker; the listener
\* runs to its return
FetchEvent(e, r) ==
    /\ phase = "activated"
    /\ h[e].pc = "idle"
    /\ e > 1 => h[e - 1].pc # "idle"
    /\ CASE Strategy(r) = "passThrough" ->
              Set(e, [IdleHandler EXCEPT !.req = r, !.pc = "done",
                                         !.result = Default])
         [] Strategy(r) = "networkFirst" ->
              Set(e, [IdleHandler EXCEPT !.req = r, !.pc = "fetching",
                                         !.respondWith = 1, !.fetches = 1])
         [] Strategy(r) = "staleWhileRevalidate" ->
              Set(e, [IdleHandler EXCEPT !.req = r, !.pc = "lookup",
                                         !.respondWith = 1, !.reads = 1])
    /\ UNCHANGED <<names, store, serverGen, phase, install, activate>>

\* network-first: fetch(event.request) resolves. The response is returned to
\* respondWith, caches.open for the duplicate has been started.
NavFetchOk(e) ==
    /\ h[e].pc = "fetching"
    /\ LET response == Response(h[e].req.path, serverGen)
       IN  Set(e, [h[e] EXCEPT !.pc = "opening", !.response = response,
                               !.result = response])
    /\ UNCHANGED <<names, store, serverGen, phase, install, activate>>

\* network-first: fetch(event.request) rejects; caches.match(event.request)
\* starts
NavFetchFail(e) ==
    /\ h[e].pc = "fetching"
    /\ Set(e, [h[e] EXCEPT !.pc = "matching", !.reads = @ + 1])
    /\ UNCHANGED <<names, store, serverGen, phase, install, activate>>

\* network-first: caches.match(event.request) resolves with r; a hit is the
\* result, a miss starts caches.match('/')
NavMatch(e) ==
    /\ h[e].pc = "matching"
    /\ LET r == CachesMatch(names, store, RequestKey(h[e].req))
       IN  IF r # None
           THEN Set(e, [h[e] EXCEPT !.pc = "done",
                                    !.result = OrRoot(r, None)])
           ELSE Set(e, [h[e] EXCEPT !.pc = "matchingRoot", !.reads = @ + 1])
    /\ UNCHANGED <<names, store, serverGen, phase, install, activate>>

\* network-first: caches.match('/') resolves; its outcome, an entry or
\* undefined, is the result
NavMatchRoot(e) ==
    /\ h[e].pc = "matchingRoot"
    /\ LET root == CachesMatch(names, store, UrlKey(Root))
       IN  Set(e, [h[e] EXCEPT !.pc = "done",
                               !.result = OrRoot(None, root)])
    /\ UNCHANGED <<names, store, serverGen, phase, install, activate>>

\* stale-while-revalidate: caches.match(event.request) resolves with cached;
\* fetch(event.request) starts; cached || fetched is returned to respondWith
SwrLookup(e) ==
    /\ h[e].pc = "lookup"
    /\ LET cached == CachesMatch(names, store, RequestKey(h[e].req))
       IN  IF Revalidates(cached)
           THEN Set(e, [h[e] EXCEPT !.pc = "revalidating", !.cached = cached,
                                    !.fetches = @ + 1,
                                    !.result = CachedOr(cached, Pending)])
           ELSE Set(e, [h[e] EXCEPT !.pc = "done", !.cached = cached,
                                    !.result = cached])
    /\ UNCHANGED <<names, store, serverGen, phase, install, activate>>

\* stale-while-revalidate: fetch(event.request) resolves; fetched resolves
\* with the response, caches.open for the duplicate has been started
SwrFetchOk(e) ==
    /\ h[e].pc = "revalidating"
    /\ LET response == Response(h[e].req.path, serverGen)
       IN  Set(e, [h[e] EXCEPT !.pc = "opening", !.response = response,
                               !.result = CachedOr(h[e].cached, response)])
    /\ UNCHANGED <<names, store, serverGen, phase, install, activate>>

\* stale-while-revalidate: fetch(event.request) rejects; fetched resolves
\* with cached (.catch(() => cached))
SwrFetchFail(e) ==
    /\ h[e].pc = "revalidating"
    /\ Set(e, [h[e] EXCEPT !.pc = AfterFetchFail,
                           !.result = CachedOr(h[e].cached,
                                               CatchCached(h[e].cached))])
    /\ UNCHANGED <<names, store, serverGen, phase, install, activate>>

\* both strategies: caches.open(CACHE_NAME) resolves; cache.put starts
PutOpen(e) ==
    /\ h[e].pc = "opening"
    /\ names' = CachesOpen(names, CACHE_NAME)
    /\ Set(e, [h[e] EXCEPT !.pc = "putting"])
    /\ UNCHANGED <<store, serverGen, phase, install, activate>>

\* both strategies: cache.put(event.request, clone) resolves
Put(e) ==
    /\ h[e].pc = "putting"
    /\ store' = [store EXCEPT ![CACHE_NAME] =
                    CachePut(@, RequestKey(h[e].req), Clone(h[e].response))]
    /\ Set(e, [h[e] EXCEPT !.pc = "done", !.puts = @ + 1])
    /\ UNCHANGED <<names, serverGen, phase, install, activate>>

----------------------------------------------------------------------------
(* The host and the origin server *)

\* an event is alive until the promise given to respondWith has settled; an
\* event the listener did not answer is over when the listener returns
EventAlive(e) == h[e].pc \notin {"idle", "done", "killed"} /\ h[e].result = Pending

\* work a handler started but did not tie to its event
Background(e) == h[e].pc \in {"revalidating", "opening", "putting"} /\ h[e].result # Pending

\* the host stops the worker: it may do so whenever no event is alive. What
\* the handlers left running in the background never completes.
Terminate ==
    /\ phase = "activated"
    /\ \A e \in DOMAIN h : ~ EventAlive(e)
    /\ \E e \in DOMAIN h : Background(e)
    /\ h' = [e \in DOMAIN h |->
                IF Background(e) THEN [h[e] EXCEPT !.pc = "killed"] ELSE h[e]]
    /\ UNCHANGED <<names, store, serverGen, phase, install, activate>>

\* the host forgets a finished event
Retire(e) ==
    /\ h[e].pc \in {"done", "killed", "failed"}
    /\ Set(e, IdleHandler)
    /\ UNCHANGED <<names, store, serverGen, phase, install, activate>>

\* the origin deploys new content: later network fetches return it
Deploy ==
    /\ serverGen < MaxGen
    /\ serverGen' = serverGen + 1
    /\ UNCHANGED <<names, store, phase, install, activate, h>>

----------------------------------------------------------------------------
(* Specification *)

\* what a previous deployment left in a cache
LegacyContent ==
    {Entry(UrlKey(p), Response(p, 0)) : p \in Manifest \cup {Dashboard}}

\* the worker starts with no cache or with the cache of the previous version
Init ==
    /\ names \in {<< >>, <<LegacyName>>}
    /\ store = [n \in CacheNames |->
                  IF \E i \in 1..Len(names) : names[i] = n
                  THEN LegacyContent ELSE EmptyCache]
    /\ serverGen = 1
    /\ phase = "parsed"
    /\ install = IdleInstall
    /\ activate = IdleActivate
    /\ h = [e \in Slots |-> IdleHandler]

Next ==
    \/ InstallEvent
    \/ InstallOpen
    \/ InstallAddAll
    \/ ActivateEvent
    \/ ActivateKeys
    \/ ActivateDelete
    \/ ActivateDone
    \/ \E e \in Slots, r \in Requests : FetchEvent(e, r)
    \/ \E e \in Slots : NavFetchOk(e)
    \/ \E e \in Slots : NavFetchFail(e)
    \/ \E e \in Slots : NavMatch(e)
    \/ \E e \in Slots : NavMatchRoot(e)
    \/ \E e \in Slots : SwrLookup(e)
    \/ \E e \in Slots : SwrFetchOk(e)
    \/ \E e \in Slots : SwrFetchFail(e)
    \/ \E e \in Slots : PutOpen(e)
    \/ \E e \in Slots : Put(e)
    \/ \E e \in Slots : Retire(e)
    \/ Terminate
    \/ Deploy

Spec == Init /\ [][Next]_vars

----------------------------------------------------------------------------
(* A cache store whose operations can fail *)

\* a promise that has rejected
Rejected == [kind |-> "rejected", url |-> << >>, gen |-> 0]

\* caches.open(CACHE_NAME).then(cache => cache.put(...)) is a statement of
\* its own: the chain is not returned and not passed to waitUntil, so its
\* rejection reaches nobody and the answer to the event stays what it was
PutChainDetached(result) == result

\* install: caches.open(CACHE_NAME) rejects, and with it the promise given
\* to waitUntil; the host discards the worker
InstallOpenFails ==
    /\ install.pc = "opening"
    /\ install' = [install EXCEPT !.pc = "failed", !.promise = "rejected"]
    /\ phase' = "redundant"
    /\ UNCHANGED <<names, store, serverGen, activate, h>>

\* activate: caches.keys() rejects, and with it the promise given to
\* waitUntil; no deletion is started. The host activates the worker all the
\* same.
ActivateKeysFails ==
    /\ activate.pc = "keys"
    /\ activate' = [activate EXCEPT !.pc = "failed", !.promise = "rejected"]
    /\ phase' = "activated"
    /\ UNCHANGED <<names, store, serverGen, install, h>>

\* activate: one caches.delete(k) rejects; Promise.all rejects at once and
\* the cache k stays
ActivateDeleteFails ==
    /\ activate.pc = "deleting"
    /\ \E k \in activate.pending :
        activate' = [activate EXCEPT !.pc = "failed", !.promise = "rejected",
                                     !.pending = @ \ {k}]
    /\ phase' = "activated"
    /\ UNCHANGED <<names, store, serverGen, install, h>>

\* network-first: caches.match(event.request) rejects in the catch callback
NavMatchFails(e) ==
    /\ h[e].pc = "matching"
    /\ Set(e, [h[e] EXCEPT !.pc = "failed", !.result = Rejected])
    /\ UNCHANGED <<names, store, serverGen, phase, install, activate>>

\* network-first: caches.match('/') rejects
NavMatchRootFails(e) ==
    /\ h[e].pc = "matchingRoot"
    /\ Set(e, [h[e] EXCEPT !.pc = "failed", !.result = Rejected])
    /\ UNCHANGED <<names, store, serverGen, phase, install, activate>>

\* stale-while-revalidate: caches.match(event.request) rejects; the callback
\* that issues the network fetch is never called
SwrLookupFails(e) ==
    /\ h[e].pc = "lookup"
    /\ Set(e, [h[e] EXCEPT !.pc = "failed", !.result = Rejected])
    /\ UNCHANGED <<names, store, serverGen, phase, install, activate>>

\* both strategies: caches.open(CACHE_NAME) rejects after the network fetch
\* succeeded
PutOpenFails(e) ==
    /\ h[e].pc = "opening"
    /\ Set(e, [h[e] EXCEPT !.pc = "failed",
                           !.result = PutChainDetached(h[e].result)])
    /\ UNCHANGED <<names, store, serverGen, phase, install, activate>>

\* both strategies: cache.put(event.request, clone) rejects
PutFails(e) ==
    /\ h[e].pc = "putting"
    /\ Set(e, [h[e] EXCEPT !.pc = "failed",
                           !.result = PutChainDetached(h[e].result)])
    /\ UNCHANGED <<names, store, serverGen, phase, install, activate>>

NextFaulty ==
    \/ Next
    \/ InstallOpenFails
    \/ ActivateKeysFails
    \/ ActivateDeleteFails
    \/ \E e \in Slots : NavMatchFails(e)
    \/ \E e \in Slots : NavMatchRootFails(e)
    \/ \E e \in Slots : SwrLookupFails(e)
    \/ \E e \in Slots : PutOpenFails(e)
    \/ \E e \in Slots : PutFails(e)

SpecFaulty == Init /\ [][NextFaulty]_vars

----------------------------------------------------------------------------
\* Concurrent handlers for one request: one more event in flight than in
\* Spec, every event a GET of the same URL, as a navigation or as a
\* subresource, so that the writes of the handlers meet on one cache key.
\* The worker is the first version installed: there is no cache of another
\* version, and activate has no deletion to make.
ConcurrentSlots == 1..(NumSlots + 1)

SameKeyRequests == {r \in Requests : r.method = "GET" /\ r.path = Dashboard}

InitConcurrent ==
    /\ names = << >>
    /\ store = [n \in CacheNames |-> EmptyCache]
    /\ serverGen = 1
    /\ phase = "parsed"
    /\ install = IdleInstall
    /\ activate = IdleActivate
    /\ h = [e \in ConcurrentSlots |-> IdleHandler]

NextConcurrent ==
    \/ InstallEvent
    \/ InstallOpen
    \/ InstallAddAll
    \/ ActivateEvent
    \/ ActivateKeys
    \/ ActivateDone
    \/ \E e \in ConcurrentSlots, r \in SameKeyRequests : FetchEvent(e, r)
    \/ \E e \in ConcurrentSlots : NavFetchOk(e)
    \/ \E e \in ConcurrentSlots : NavFetchFail(e)
    \/ \E e \in ConcurrentSlots : NavMatch(e)
    \/ \E e \in ConcurrentSlots : NavMatchRoot(e)
    \/ \E e \in ConcurrentSlots : SwrLookup(e)
    \/ \E e \in ConcurrentSlots : SwrFetchOk(e)
    \/ \E e \in ConcurrentSlots : SwrFetchFail(e)
    \/ \E e \in ConcurrentSlots : PutOpen(e)
    \/ \E e \in ConcurrentSlots : Put(e)
    \/ \E e \in ConcurrentSlots : Retire(e)
    \/ Terminate
    \/ Deploy

SpecConcurrent == InitConcurrent /\ [][NextConcurrent]_vars

----------------------------------------------------------------------------
(* Properties *)

\* the cache named name exists
Exists(ns, name) == \E i \in 1..Len(ns) : ns[i] = name

\* the responses the cache named name holds under key
Held(name, key) == {en.response : en \in {x \in store[name] : x.key = key}}

\* a path under the reserved prefix '/api/'
IsApiPath(path) == Len(path) >= 2 /\ path[1] = "api"

\* the listener returned without answering the event: no respondWith, no
\* network fetch of its own, no cache read, no cache write; the browser
\* performs the request
NotIntercepted(rec) ==
    /\ rec.pc = "done"
    /\ rec.result = Default
    /\ rec.respondWith = 0
    /\ rec.fetches = 0
    /\ rec.reads = 0
    /\ rec.puts = 0

\* C1: a fetch event whose method is not GET is never intercepted, whatever
\* its path and mode: the listener makes no cache read, no cache write, no
\* network fetch and no respondWith call, and the step that handles the
\* event leaves the caches as they were.
NonGetNeverIntercepted ==
    [][\A e \in Slots :
        /\ h'[e].req.method \notin {"GET", "-"} => NotIntercepted(h'[e])
        /\ (h[e].pc = "idle" /\ h'[e].req.method \notin {"GET", "-"})
              => (store' = store /\ names' = names)]_vars

\* a POST navigation to a page whose GET is cached has passed through
NonGetWitness ==
    \E e \in Slots :
        /\ h[e].req = [method |-> "POST", path |-> Dashboard, mode |-> "navigate"]
        /\ NotIntercepted(h[e])
        /\ Held(CACHE_NAME, UrlKey(Dashboard)) # {}

\* C2: a fetch event whose path starts with '/api/' is never intercepted,
\* whatever its method and mode, a GET navigation included.
ApiNeverIntercepted ==
    [][\A e \in Slots :
        /\ (h'[e].pc # "idle" /\ IsApiPath(h'[e].req.path))
              => NotIntercepted(h'[e])
        /\ (h[e].pc = "idle" /\ h'[e].pc # "idle" /\ IsApiPath(h'[e].req.path))
              => (store' = store /\ names' = names)]_vars

\* a GET navigation to an /api/ path has passed through
ApiWitness ==
    \E e \in Slots :
        /\ h[e].req = [method |-> "GET", path |-> ApiReport, mode |-> "navigate"]
        /\ NotIntercepted(h[e])

\* C3: the cache of the current version never holds an entry keyed by a
\* request that is not a GET or whose path starts with '/api/', and no
\* handler has such a write under way.
NamedCacheClean ==
    /\ \A en \in store[CACHE_NAME] :
          en.key.method = "GET" /\ ~ IsApiPath(en.key.path)
    /\ \A e \in Slots :
          h[e].pc \in {"opening", "putting"}
              => (h[e].req.method = "GET" /\ ~ IsApiPath(h[e].req.path))

\* after install, activate and a cached page, a GET under /api/ has been
\* handled
NamedCacheWitness ==
    \E e \in Slots :
        /\ h[e].pc = "done"
        /\ h[e].req.method = "GET"
        /\ IsApiPath(h[e].req.path)
        /\ Held(CACHE_NAME, UrlKey(Dashboard)) # {}
        /\ Held(CACHE_NAME, UrlKey(Root)) # {}

\* what activate leaves once its work has completed: no cache of its
\* snapshot under another name than the current one
CleanedUp ==
    activate.promise = "fulfilled"
        => \A k \in activate.keys :
              IF k = CACHE_NAME THEN Exists(names, k) ELSE ~ Exists(names, k)

\* C4: when activate's work has completed, every cache that existed when it
\* started and is not the current version's has been deleted, and no step of
\* activate deletes the current version's cache or changes its entries.
ActivateCleansUp ==
    [][/\ CleanedUp'
       /\ activate' # activate
             => /\ store'[CACHE_NAME] = store[CACHE_NAME]
                /\ Exists(names, CACHE_NAME) => Exists(names', CACHE_NAME)]_vars

\* from {celesys-ai-v1, celesys-ai-v2} only celesys-ai-v2, with its entries,
\* remains
ActivateWitness ==
    /\ activate.promise = "fulfilled"
    /\ activate.keys = {LegacyName, CACHE_NAME}
    /\ names = <<CACHE_NAME>>
    /\ Held(CACHE_NAME, UrlKey(Root)) # {}

\* C5: after install, every manifest path whose own fetch succeeded is
\* retrievable from the cache of the current version, also when the fetch of
\* another manifest path failed.
ManifestRoundTrip ==
    (phase = "installed" /\ install.pc = "done")
        => \A p \in install.ok :
              Held(CACHE_NAME, UrlKey(p)) \cap {Response(p, g) : g \in 1..MaxGen} # {}

\* C6: whatever subset of the manifest fails to be fetched or stored, the
\* promise install hands to waitUntil fulfils, and the failure is logged.
InstallReportsSuccess ==
    /\ install.promise # "rejected"
    /\ install.pc = "done" => install.promise = "fulfilled"
    /\ (phase = "installed" /\ install.ok # Manifest) => install.warned

\* install has completed although one icon could not be fetched
InstallWitness ==
    /\ phase = "installed"
    /\ install.ok = Manifest \ {<<"icons", "icon-512.png">>}
    /\ install.promise = "fulfilled"
    /\ install.warned

\* the responses cached under key, in any existing cache
Cached(key) == UNION {Held(names[i], key) : i \in 1..Len(names)}

\* the handler in slot e runs the network-first strategy
IsNavigation(rec) ==
    /\ rec.req.method = "GET"
    /\ ~ IsApiPath(rec.req.path)
    /\ rec.req.mode = "navigate"

\* the handler in slot e runs stale-while-revalidate
IsAsset(rec) ==
    /\ rec.req.method = "GET"
    /\ ~ IsApiPath(rec.req.path)
    /\ rec.req.mode \notin {"navigate", "-"}

\* C7: a GET navigation outside /api/ whose network fetch fails is answered
\* with the cached response of the exact request when there is one, else
\* with the cached response of '/' when there is one, else with no response.
OfflineNavigationFallback ==
    [][\A e \in Slots :
        /\ h'[e].pc \in {"matching", "matchingRoot"}
              => (IsNavigation(h'[e]) /\ h'[e].result = Pending)
        /\ (h[e].pc = "matching" /\ h'[e] # h[e])
              => IF Cached(RequestKey(h[e].req)) # {}
                 THEN /\ h'[e].pc = "done"
                      /\ h'[e].result \in Cached(RequestKey(h[e].req))
                 ELSE h'[e].pc = "matchingRoot"
        /\ (h[e].pc = "matchingRoot" /\ h'[e] # h[e])
              => /\ h'[e].pc = "done"
                 /\ IF Cached(UrlKey(Root)) # {}
                    THEN h'[e].result \in Cached(UrlKey(Root))
                    ELSE h'[e].result = None]_vars

\* offline navigation to /dashboard, only '/' cached: the '/' entry is served
OfflineNavigationWitness ==
    \E e \in Slots :
        /\ h[e].pc = "done"
        /\ h[e].req = [method |-> "GET", path |-> Dashboard, mode |-> "navigate"]
        /\ h[e].fetches = 1
        /\ h[e].reads = 2
        /\ Cached(RequestKey(h[e].req)) = {}
        /\ h[e].result.kind = "response"
        /\ h[e].result.url = Root
        /\ Cached(UrlKey(Root)) = {h[e].result}

StaleServedThenRefreshed ==
    \A e \in Slots :
        (IsAsset(h[e]) /\ h[e].cached # None)
            => /\ h[e].result = h[e].cached
               /\ (h[e].response # None /\ h[e].pc \in {"done", "killed"})
                     => /\ h[e].puts = 1
                        /\ h[e].response \in Held(CACHE_NAME, RequestKey(h[e].req))

MissOfflineHasNoResponse ==
    [][\A e \in Slots :
        (/\ IsAsset(h[e])
         /\ h[e].pc = "revalidating"
         /\ h[e].cached = None
         /\ h'[e] # h[e]
         /\ h'[e].response = None)
            => /\ h'[e].pc = "done"
               /\ h'[e].result = None
               /\ h'[e].puts = 0
               /\ store' = store
               /\ names' = names]_vars

\* an asset that is in no cache was requested while the network was down:
\* the handler is over, its answer is the missing value, the cache still has
\* no entry for it
MissOfflineWitness ==
    \E e \in Slots :
        /\ h[e].pc = "done"
        /\ h[e].req = [method |-> "GET", path |-> Dashboard, mode |-> "no-cors"]
        /\ h[e].fetches = 1
        /\ h[e].cached = None
        /\ h[e].response = None
        /\ h[e].result = None
        /\ Cached(RequestKey(h[e].req)) = {}

\* C12: the listener applies one strategy per event, chosen by the first
\* condition that matches: method not GET, then a path under /api/ (both
\* left to the browser, respondWith never called), then navigate mode
\* (network-first: the network is asked before any cache is read), then
\* everything else (stale-while-revalidate: the cache is read before the
\* network is asked); respondWith is called once in the last two cases.
OneStrategyPerEvent ==
    \A e \in Slots :
        h[e].pc # "idle" =>
            IF h[e].req.method # "GET" THEN NotIntercepted(h[e])
            ELSE IF IsApiPath(h[e].req.path) THEN NotIntercepted(h[e])
            ELSE IF h[e].req.mode = "navigate"
                 THEN /\ h[e].respondWith = 1
                      /\ h[e].cached = None
                      /\ h[e].pc \in {"fetching", "matching", "matchingRoot",
                                      "opening", "putting", "done", "killed"}
                      /\ (h[e].pc = "fetching") <=> (h[e].result = Pending /\ h[e].reads = 0)
            ELSE /\ h[e].respondWith = 1
                 /\ h[e].pc \in {"lookup", "revalidating",
                                 "opening", "putting", "done", "killed"}
                 /\ h[e].reads = 1
                 /\ (h[e].pc = "lookup") <=> (h[e].fetches = 0)

\* a navigation to a manifest asset is in the network-first strategy although
\* the asset is cached: it has fetched and is writing, and has read no cache
OneStrategyWitness ==
    \E e \in Slots :
        /\ h[e].req = [method |-> "GET", path |-> Icon192, mode |-> "navigate"]
        /\ h[e].pc = "putting"
        /\ h[e].respondWith = 1
        /\ h[e].reads = 0
        /\ Cached(UrlKey(Icon192)) # {}

\* C13: every cache write a fetch handler starts is kept alive by its event:
\* the event is not resolved for the host while the write is in flight, so
\* no write is cut short when the host stops a worker whose events are all
\* resolved.
WritesKeptAlive ==
    \A e \in Slots :
        /\ h[e].pc \in {"opening", "putting"} => h[e].result = Pending
        /\ h[e].pc # "killed"

\* C14: the install event is not reported complete before caches.open and
\* cache.addAll have settled, and the activate event is not reported
\* complete before every caches.delete of a cache of another version has
\* settled.
LifecycleWaits ==
    /\ install.promise # "pending" => install.pc \in {"idle", "done"}
    /\ phase \in {"installed", "activating", "activated"}
          => install.pc = "done" /\ install.promise # "pending"
    /\ activate.pc \in {"keys", "deleting"} => activate.promise = "pending"
    /\ activate.pending # {} => activate.promise = "pending" /\ phase # "activated"
    /\ activate.promise = "fulfilled"
          => /\ activate.pc = "done"
             /\ \A n \in activate.keys \ {CACHE_NAME} : ~ Exists(names, n)

\* the activate event is still pending while the deletion of the previous
\* version's cache is in flight, after an install that had settled
LifecycleWitness ==
    /\ install.pc = "done"
    /\ install.promise = "fulfilled"
    /\ phase = "activating"
    /\ activate.pending = {LegacyName}
    /\ activate.promise = "pending"
    /\ Exists(names, LegacyName)

\* C18: each intercepted request causes exactly one network fetch: the
\* network-first handler issues it at once, the stale-while-revalidate
\* handler issues it when the cache lookup has resolved, whether or not the
\* lookup found an entry, and no handler issues a second one after a failure.
ExactlyOneFetch ==
    \A e \in Slots :
        /\ h[e].fetches <= 1
        /\ IsNavigation(h[e]) => h[e].fetches = 1
        /\ (IsAsset(h[e]) /\ h[e].pc # "lookup") => h[e].fetches = 1
        /\ (IsAsset(h[e]) /\ h[e].cached # None) => h[e].fetches = 1

\* an asset was answered from the cache, its revalidation fetch was issued
\* and failed, and the handler ended without a second fetch
ExactlyOneFetchWitness ==
    \E e \in Slots :
        /\ h[e].pc = "done"
        /\ h[e].req = [method |-> "GET", path |-> Icon192, mode |-> "no-cors"]
        /\ h[e].cached = Response(Icon192, 1)
        /\ h[e].result = h[e].cached
        /\ h[e].response = None
        /\ h[e].fetches = 1

\* C19: a fetch handler whose network fetch fails leaves the caches as they
\* were, in both strategies: every step of a handler that holds no network
\* response changes no cache, and the handler makes no write.
FailedFetchLeavesCaches ==
    [][\A e \in Slots :
        (/\ h[e].pc # "idle"
         /\ h[e].respondWith = 1
         /\ h'[e] # h[e]
         /\ h'[e].response = None)
            => /\ store' = store
               /\ names' = names
               /\ h'[e].puts = 0]_vars

\* a navigation to a cached asset failed on the network and was answered
\* with the entry, which is still what the cache holds
FailedFetchWitness ==
    \E e \in Slots :
        /\ h[e].pc = "done"
        /\ h[e].req = [method |-> "GET", path |-> Icon192, mode |-> "navigate"]
        /\ h[e].response = None
        /\ h[e].reads = 1
        /\ h[e].puts = 0
        /\ h[e].result = Response(Icon192, 1)
        /\ Held(CACHE_NAME, UrlKey(Icon192)) = {Response(Icon192, 1)}

\* the entries the cache of the current version holds under key
EntriesOf(st, key) == {en \in st[CACHE_NAME] : en.key = key}

\* C15: whatever the interleaving of the handlers in flight for one request,
\* every write leaves exactly one entry under the request's key, holding the
\* response of that write, also when the same response is written twice;
\* nothing but a write changes the entry, so when all handlers have finished
\* the cache holds one entry, that of the write applied last.
LastWriteWins ==
    [][LET key == UrlKey(Dashboard)
       IN  /\ \A e \in ConcurrentSlots :
                (h[e].pc = "putting" /\ h'[e].pc = "done")
                    => EntriesOf(store', key) = {Entry(key, h[e].response)}
           /\ (phase = "activated"
                 /\ \A e \in ConcurrentSlots :
                       ~ (h[e].pc = "putting" /\ h'[e].pc = "done"))
                    => store' = store
           /\ ((\A e \in ConcurrentSlots : h[e].pc \in {"idle", "done"})
                 /\ (\E e \in ConcurrentSlots : h[e].puts = 1))
                    => Cardinality(EntriesOf(store, key)) = 1]_vars

\* two handlers for /dashboard have finished: the first fetched generation 2,
\* the second generation 1, and the second wrote last; the one entry is the
\* response of generation 1
LastWriteWitness ==
    /\ h[1].pc = "done" /\ h[1].puts = 1
    /\ h[2].pc = "done" /\ h[2].puts = 1
    /\ h[1].response = Response(Dashboard, 2)
    /\ h[2].response = Response(Dashboard, 1)
    /\ EntriesOf(store, UrlKey(Dashboard))
          = {Entry(UrlKey(Dashboard), Response(Dashboard, 1))}

\* C16: whenever a cache-store operation (open, match, put, keys, delete)
\* fails during a handler, the failure propagates: the promise
\* handed to the host for that event rejects; in particular a failed open or
\* put after a successful network fetch makes the fetch event's result a
\* failure.
StoreFailurePropagates ==
    /\ install.pc = "failed" => install.promise = "rejected"
    /\ activate.pc = "failed" => activate.promise = "rejected"
    /\ \A e \in Slots : h[e].pc = "failed" => h[e].result = Rejected

\* C17: a stale-while-revalidate handler whose cache lookup fails
\* structurally treats the failure as a miss: it still issues the network
\* fetch and answers with its outcome.
LookupFailureIsMiss ==
    \A e \in Slots :
        (IsAsset(h[e]) /\ h[e].pc # "lookup")
            => h[e].fetches = 1 /\ h[e].result # Rejected

\* C20: every response served from a cache is an entry of the cache of the
\* current version: no handler finds or serves a response that only the
\* cache of an older version holds.
ServedFromCurrentVersion ==
    \A e \in Slots :
        \A r \in {h[e].cached, h[e].result} :
            r \notin {en.response : en \in LegacyContent}

====
